---- MODULE Spec2Model ----
(***************************************************************************)
(* A model of the IM-Insight signal extraction pipeline:                   *)
(*   - MessageDeduplicator          (src/src/core/monitor.py)              *)
(*   - SignalProcessor              (src/src/engine/processor.py)          *)
(*   - LLMGateway                   (src/src/engine/llm_gateway.py)        *)
(*   - SqliteStore                  (src/src/action/storage.py)            *)
(* Text is modelled as a sequence of one-character strings, so that        *)
(* concatenation, searching, trimming and formatting are computed the way  *)
(* the Python code computes them.                                          *)
(***************************************************************************)
EXTENDS Integers, Sequences, FiniteSets, TLC

VARIABLES
    seen_hashes,    \* MessageDeduplicator.seen_hashes, oldest entry first
    dd_hist,        \* the (at most two) most recent is_duplicate calls
    dd_since,       \* per hash: appends made after its own last append
    raw_messages,   \* rows of table raw_messages
    trade_signals,  \* rows of table trade_signals
    st_last,        \* the most recent store call and its outcome
    st_day,         \* the store's wall clock, in days
    cfg,            \* settings.rules and settings.intelligence.enabled
    pr_msg,         \* the RawMessage handed to the processor
    pr_http,        \* how the request to the extraction service ends
    pr_api,         \* what _call_api returns for that request
    pr_trade,       \* outcome of is_trade_related(pr_msg), once called
    pr_out,         \* outcome of process(pr_msg), once called
    pr_first,       \* the first process() run of a series of runs
    clock,          \* the reading of time.monotonic()
    _rate_window,   \* LLMGateway._rate_window, oldest timestamp first
    gw_issued,      \* the times at which calls passed the limiter
    gw_last,        \* the most recent pass through the limiter
    gw_threads,     \* per calling thread: where it stands in _throttle()
    mn_pc,          \* where main() stands in its monitoring loop
    mn_messages,    \* the batch get_recent_messages() returned this tick
    mn_handled,     \* the messages of the batch handled so far, in order
    mn_scan,        \* what the collector saw and decided this tick
    mn_stop,        \* where the operator's interrupt arrived, if it did
    mn_restarted    \* whether the process was stopped and started again

vars == <<seen_hashes, dd_hist, dd_since, raw_messages, trade_signals,
          st_last, st_day, cfg, pr_msg, pr_http, pr_api, pr_trade, pr_out,
          pr_first, clock, _rate_window, gw_issued, gw_last, gw_threads,
          mn_pc, mn_messages, mn_handled, mn_scan, mn_stop, mn_restarted>>

dedupVars == <<seen_hashes, dd_hist, dd_since>>
storeVars == <<raw_messages, trade_signals, st_last, st_day>>
procVars  == <<cfg, pr_msg, pr_http, pr_api, pr_trade, pr_out, pr_first>>
gwVars    == <<clock, _rate_window, gw_issued, gw_last, gw_threads>>
mainVars  == <<mn_pc, mn_messages, mn_handled, mn_scan, mn_stop, mn_restarted>>

(***************************************************************************)
(* Python values                                                           *)
(***************************************************************************)

\* Python's None; the token is not a character of any modelled text.
NoneVal == <<"<None>">>

Range(s) == {s[i] : i \in DOMAIN s}

Min(a, b) == IF a <= b THEN a ELSE b

\* All sequences over S of length 0..n.
SeqUpTo(S, n) == UNION {[1..k -> S] : k \in 0..n}

\* str.lower() / str.upper() on one character.
LowerChar(c) == IF c = "X" THEN "x" ELSE c
UpperChar(c) == IF c = "x" THEN "X" ELSE c

Lower(s) == [i \in DOMAIN s |-> LowerChar(s[i])]
Upper(s) == [i \in DOMAIN s |-> UpperChar(s[i])]

\* Characters str.strip() and str.split() treat as whitespace.
IsSpace(c) == c = " "

\* `p in s` for strings: p occurs in s as a contiguous run.
OccursAt(p, s, i) == i + Len(p) - 1 <= Len(s) /\ SubSeq(s, i, i + Len(p) - 1) = p
Contains(p, s) == \E i \in 1..(Len(s) + 1) : OccursAt(p, s, i)

\* Index of the first occurrence of p in s (p must occur).
FirstIndex(p, s) == CHOOSE i \in 1..(Len(s) + 1) :
                        /\ OccursAt(p, s, i)
                        /\ \A j \in 1..(i - 1) : ~OccursAt(p, s, j)

RECURSIVE LStrip(_)
LStrip(s) == IF s # <<>> /\ IsSpace(Head(s)) THEN LStrip(Tail(s)) ELSE s

RECURSIVE RStrip(_)
RStrip(s) == IF s # <<>> /\ IsSpace(s[Len(s)])
             THEN RStrip(SubSeq(s, 1, Len(s) - 1)) ELSE s

\* str.strip()
Strip(s) == RStrip(LStrip(s))

(***************************************************************************)
(* MessageDeduplicator                                                     *)
(***************************************************************************)

WindowCap == 2

Timestamps == {"t1", "t2"}
Senders    == {<<"a">>, <<"a", "b">>}
Contents   == {<<"c">>, <<"b", "c">>}

Triples == [timestamp : Timestamps, sender : Senders, content : Contents]

\* datetime.isoformat(): a fixed-width rendering, one token per instant.
IsoFormat(ts) == <<ts>>

\* hashlib.sha256(...).hexdigest(), taken to be collision free: the digest
\* is determined by, and determines, the hashed text.
Sha256(text) == <<"sha256", text>>

_generate_hash(timestamp, sender, content) ==
    Sha256(IsoFormat(timestamp) \o sender \o content)

HashOf(t) == _generate_hash(t.timestamp, t.sender, t.content)

Hashes == {HashOf(t) : t \in Triples}

\* A deque that, when full, makes room by discarding its newest entry.
Mut_DequeAppend_DropNewest(d, x, maxlen) ==
    IF maxlen = 0 THEN d
    ELSE IF Len(d) >= maxlen THEN SubSeq(d, 1, Len(d) - 1) \o <<x>>
    ELSE Append(d, x)

\* A deque that, when full, makes room by discarding all of its entries.
Mut_DequeAppend_ClearWhenFull(d, x, maxlen) ==
    IF maxlen = 0 THEN d
    ELSE IF Len(d) >= maxlen THEN <<x>>
    ELSE Append(d, x)

\* collections.deque(maxlen=...).append
DequeAppend(d, x, maxlen) ==
    IF maxlen = 0 THEN d
    ELSE IF Len(d) >= maxlen THEN Tail(d) \o <<x>>
    ELSE Append(d, x)

\* An is_duplicate that answers but forgets to record an unseen hash.
Mut_is_duplicate_fn_NoRecord(window, t) ==
    IF HashOf(t) \in Range(window) THEN <<TRUE, window>> ELSE <<FALSE, window>>

\* An is_duplicate that moves a hash it finds to the newest position.
Mut_is_duplicate_fn_Refresh(window, t) ==
    LET msg_hash == HashOf(t) IN
    IF msg_hash \in Range(window)
    THEN <<TRUE, Append(SelectSeq(window, LAMBDA g : g # msg_hash), msg_hash)>>
    ELSE <<FALSE, DequeAppend(window, msg_hash, WindowCap)>>

\* is_duplicate as a function of the window: <<return value, new window>>
is_duplicate_fn(window, t) ==
    LET msg_hash == HashOf(t) IN
    IF msg_hash \in Range(window)
    THEN <<TRUE, window>>
    ELSE <<FALSE, DequeAppend(window, msg_hash, WindowCap)>>

\* Ghost bookkeeping: an append of h starts h's count at 0 and ages every
\* other recorded hash by one (counts saturate at WindowCap).
SinceAfterAppend(since, h) ==
    [g \in (DOMAIN since) \cup {h} |->
        IF g = h THEN 0 ELSE Min(since[g] + 1, WindowCap)]

\* WindowCap or more appends were made after h was last recorded.
Aged(since, h) == h \in DOMAIN since /\ since[h] >= WindowCap

is_duplicate(t) ==
    LET res   == is_duplicate_fn(seen_hashes, t)
        h     == HashOf(t)
        entry == [t     |-> t,
                  ret   |-> res[1],
                  fresh |-> h \notin Range(seen_hashes),
                  known |-> h \in DOMAIN dd_since,
                  aged  |-> Aged(dd_since, h)]
    IN /\ seen_hashes' = res[2]
       /\ dd_hist' = IF Len(dd_hist) = 2 THEN <<dd_hist[2], entry>>
                     ELSE Append(dd_hist, entry)
       /\ dd_since' = IF res[1] THEN dd_since ELSE SinceAfterAppend(dd_since, h)
       /\ UNCHANGED <<storeVars, procVars, gwVars, mainVars>>

DedupInit ==
    /\ seen_hashes = <<>>
    /\ dd_hist = <<>>
    /\ dd_since = <<>>


(***************************************************************************)
(* MarketSignal, RawMessage and SqliteStore                                *)
(***************************************************************************)

MaxBatch == 2

\* The retention threshold and the span of the store's clock, in days.
raw_retention_days == 1
MaxDay == 3

\* A JSON / Python number keeps the type it was parsed with.
IntNum(d)   == <<"int", d>>
FloatNum(d) == <<"float", d>>
IsNumber(v) == Len(v) = 2 /\ v[1] \in {"int", "float"}

\* Python's == on optional numbers: 1 == 1.0, None == None.
PyEq(a, b) == IF IsNumber(a) /\ IsNumber(b) THEN a[2] = b[2] ELSE a = b

\* str(v), as an f-string renders a field: None -> "None", 1 -> "1",
\* 1.0 -> "1.0", text -> itself.
PyStr(v) ==
    IF v = NoneVal THEN <<"N", "o", "n", "e">>
    ELSE IF IsNumber(v)
         THEN (IF v[1] = "int" THEN <<v[2]>> ELSE <<v[2], ".", "0">>)
    ELSE v

\* A JSON object or array: a value sqlite3 cannot bind to a parameter
\* (sqlite3.ProgrammingError, a sqlite3.Error).
DictVal == <<"<dict>">>

\* An integer beyond 64 bits: binding it raises OverflowError, which is
\* not a sqlite3.Error.
HugeInt == <<"int", "2^70">>

Unbindable(v) == v = DictVal
Overflows(v) == v = HugeInt

StoreMsgIds == {<<"m1">>, <<"m2">>}

RawMessageOf(id) ==
    [id |-> id, content |-> <<"c">>, sender |-> <<"a">>, room |-> NoneVal,
     timestamp |-> "t1"]

MarketSignal(raw_msg_id, intent, timestamp, group, sender, raw_content, item, price, specs, confidence_score) ==
    [raw_msg_id |-> raw_msg_id, intent |-> intent, timestamp |-> timestamp,
     group |-> group, sender |-> sender, raw_content |-> raw_content,
     item |-> item, price |-> price, specs |-> specs,
     confidence_score |-> confidence_score]

\* The signals a message can give rise to: m1 names several goods, and its
\* extraction may render the same price as 1 or as 1.0 and an absent
\* specification as null or as the text "None"; m2 names one, and its
\* extraction may give the specification as an object or the price as an
\* integer beyond 64 bits.
SignalOf(id, item, price, specs) ==
    MarketSignal(id, <<"S">>, "t1", NoneVal, <<"a">>, <<"c">>, item, price,
                 specs, "0.9")

SignalsOf(id) ==
    IF id = <<"m1">>
    THEN {SignalOf(id, <<"x">>, IntNum("1"), NoneVal),
          SignalOf(id, <<"x">>, FloatNum("1"), NoneVal),
          SignalOf(id, <<"x">>, IntNum("1"), <<"N", "o", "n", "e">>),
          SignalOf(id, <<"y">>, NoneVal, NoneVal)}
    ELSE {SignalOf(id, <<"x">>, IntNum("1"), NoneVal),
          SignalOf(id, <<"x">>, IntNum("1"), DictVal),
          SignalOf(id, <<"x">>, HugeInt, NoneVal)}

\* main() saves what process() returned for one message: every signal of
\* a batch carries that message's id.
Batches == UNION {SeqUpTo(SignalsOf(id), MaxBatch) : id \in StoreMsgIds}

_signal_id(signal) ==
    Sha256(signal.raw_msg_id \o <<"|">> \o signal.intent \o <<"|">>
           \o PyStr(signal.item) \o <<"|">> \o PyStr(signal.price)
           \o <<"|">> \o PyStr(signal.specs))

\* A value bound to a column of REAL affinity: integers become reals.
RealAffinity(v) == IF IsNumber(v) /\ ~Overflows(v) THEN FloatNum(v[2]) ELSE v

\* The row save_signals builds for one signal (created_at left out).
SignalRow(signal) ==
    [id         |-> _signal_id(signal),
     raw_msg_id |-> signal.raw_msg_id,
     intent     |-> signal.intent,
     item       |-> IF signal.item \in {NoneVal, <<>>} THEN <<>> ELSE signal.item,
     price      |-> RealAffinity(signal.price),
     specs      |-> signal.specs,
     confidence |-> signal.confidence_score,
     group_name |-> signal.group,
     sender     |-> signal.sender,
     timestamp  |-> signal.timestamp,
     raw_content |-> signal.raw_content]

\* Binding the parameters of one row, in column order: "raised" for an
\* OverflowError, "error" for a sqlite3.Error, else "ok".
BindRow(r) ==
    IF Overflows(r.price) THEN "raised"
    ELSE IF Unbindable(r.price) THEN "error"
    ELSE IF Overflows(r.specs) THEN "raised"
    ELSE IF Unbindable(r.specs) THEN "error"
    ELSE "ok"

\* executemany("INSERT OR IGNORE INTO trade_signals ...") inside one
\* transaction, foreign keys on, row after row: a row that cannot be bound
\* ends the statement with an exception, a row whose id exists is skipped,
\* a row whose raw_msg_id has no parent raises sqlite3.IntegrityError.  On
\* an exception the result carries the rows inserted so far.
RECURSIVE InsertOrIgnoreAll(_, _, _)
InsertOrIgnoreAll(table, rows, parents) ==
    IF rows = <<>> THEN <<"ok", table>>
    ELSE LET r == Head(rows) IN
         IF BindRow(r) # "ok" THEN <<BindRow(r), table>>
         ELSE IF \E e \in table : e.id = r.id
         THEN InsertOrIgnoreAll(table, Tail(rows), parents)
         ELSE IF r.raw_msg_id \notin parents
         THEN <<"error", table>>
         ELSE InsertOrIgnoreAll(table \cup {r}, Tail(rows), parents)

\* The ids of the rows one executemany of INSERT OR IGNORE adds to the
\* table, in the order in which it adds them: the rows are taken one after
\* the other, a row whose id is in the table by then is skipped.
RECURSIVE InsertedIds(_, _)
InsertedIds(table, rows) ==
    IF rows = <<>> THEN <<>>
    ELSE IF \E e \in table : e.id = Head(rows).id
    THEN InsertedIds(table, Tail(rows))
    ELSE <<Head(rows).id>> \o InsertedIds(table \cup {Head(rows)}, Tail(rows))

\* A save_signals whose transaction commits what was inserted before the
\* exception.
Mut_save_signals_fn_NoRollback(signals, audit, table) ==
    LET rows == [i \in DOMAIN signals |-> SignalRow(signals[i])] IN
    IF rows = <<>> THEN <<"ok", table>>
    ELSE InsertOrIgnoreAll(table, rows, {a.id : a \in audit})

\* save_signals as a function of the tables: <<outcome, new trade_signals>>.
\* `with self._conn` commits, or rolls back on any exception; a
\* sqlite3.Error is then logged ("error"), any other exception leaves
\* save_signals ("raised").
save_signals_fn(signals, audit, table) ==
    LET rows == [i \in DOMAIN signals |-> SignalRow(signals[i])] IN
    IF rows = <<>> THEN <<"ok", table>>
    ELSE LET res == InsertOrIgnoreAll(table, rows, {a.id : a \in audit}) IN
         IF res[1] = "ok" THEN res ELSE <<res[1], table>>

save_signals(signals) ==
    LET res == save_signals_fn(signals, raw_messages, trade_signals) IN
    /\ trade_signals' = res[2]
    /\ st_last' = [op |-> "save_signals", batch |-> signals,
                   ok |-> res[1] = "ok", raised |-> res[1] = "raised"]
    /\ UNCHANGED <<raw_messages, st_day, dedupVars, procVars, gwVars, mainVars>>

\* The row save_raw_message builds, ingested_at being the current time and
\* the verdict stored as 1 or 0.
RawRow(message, is_trade, now) ==
    [id |-> message.id, content |-> message.content,
     sender |-> message.sender, room |-> message.room,
     timestamp |-> message.timestamp, ingested_at |-> now,
     is_trade |-> IF is_trade THEN 1 ELSE 0]

\* A save_raw_message that writes with INSERT OR REPLACE.
Mut_save_raw_message_fn_Replace(audit, message, is_trade, now) ==
    {e \in audit : e.id # message.id} \cup {RawRow(message, is_trade, now)}

\* INSERT OR IGNORE INTO raw_messages, as a function of the table.
save_raw_message_fn(audit, message, is_trade, now) ==
    IF \E e \in audit : e.id = message.id THEN audit
    ELSE audit \cup {RawRow(message, is_trade, now)}

save_raw_message(message, is_trade) ==
    /\ raw_messages' = save_raw_message_fn(raw_messages, message, is_trade, st_day)
    /\ st_last' = [op |-> "save_raw_message", batch |-> <<>>, ok |-> TRUE,
                   raised |-> FALSE, id |-> message.id, is_trade |-> is_trade]
    /\ UNCHANGED <<trade_signals, st_day, dedupVars, procVars, gwVars,
                    mainVars>>

\* WHERE ingested_at < datetime('now', '-<raw_retention_days> days')
Expired(a, now) == a.ingested_at < now - raw_retention_days

\* A sweep that also removes the signal rows of the audit rows it deletes.
Mut_cleanup_fn_Cascade(audit, table, now) ==
    LET expired == {a \in audit : Expired(a, now)} IN
    <<"ok", audit \ expired,
      {r \in table : \A a \in expired : r.raw_msg_id # a.id}>>

\* A sweep on a connection that does not enforce the foreign key.
Mut_cleanup_fn_NoForeignKey(audit, table, now) ==
    LET expired == {a \in audit : Expired(a, now)} IN
    <<"ok", audit \ expired, table>>

\* A sweep that fails on a referenced row after it has deleted the expired
\* rows that nothing references.
Mut_cleanup_fn_PartialDelete(audit, table, now) ==
    LET expired == {a \in audit : Expired(a, now)}
        held    == {a \in expired : \E r \in table : r.raw_msg_id = a.id}
    IN IF held # {}
       THEN <<"error", audit \ (expired \ held), table>>
       ELSE <<"ok", audit \ expired, table>>

\* cleanup_raw_messages as a function of the tables and the current time:
\* <<outcome, new raw_messages, new trade_signals>>.  The DELETE is one
\* statement: when a row it would delete is referenced by a signal row the
\* foreign key fails the statement and nothing is deleted.
cleanup_fn(audit, table, now) ==
    LET expired == {a \in audit : Expired(a, now)} IN
    IF \E a \in expired, r \in table : r.raw_msg_id = a.id
    THEN <<"error", audit, table>>
    ELSE <<"ok", audit \ expired, table>>

cleanup_raw_messages ==
    LET res == cleanup_fn(raw_messages, trade_signals, st_day) IN
    /\ raw_messages' = res[2]
    /\ trade_signals' = res[3]
    /\ st_last' = [op |-> "cleanup_raw_messages", batch |-> <<>>,
                   ok |-> res[1] = "ok", raised |-> FALSE]
    /\ UNCHANGED <<st_day, dedupVars, procVars, gwVars, mainVars>>

\* A day passes on the store's clock.
NextDay ==
    /\ st_day < MaxDay
    /\ st_day' = st_day + 1
    /\ UNCHANGED <<raw_messages, trade_signals, st_last, dedupVars, procVars,
                   gwVars, mainVars>>

(***************************************************************************)
(* LLMGateway.analyze (result normalisation) and SignalProcessor           *)
(***************************************************************************)

MaxContent == 2
MaxObjects == 2

\* Characters of message text: "shou" and "chu" stand for the one-character
\* keywords of the fallback extractor (buy, sell), "x" for a letter.
Alphabet == {"shou", "chu", "x", " "}

ProcContents == SeqUpTo(Alphabet, MaxContent)

ProcMessage(content) ==
    [id |-> _generate_hash("t1", <<"a">>, content), content |-> content,
     sender |-> <<"a">>, room |-> <<"g">>, timestamp |-> "t1"]

ProcMessages == {ProcMessage(c) : c \in ProcContents}

\* A key that a JSON object does not have.
Absent == <<"<absent>">>

LLMObject(intent, item, price, specs) ==
    [intent |-> intent, item_name |-> item, price |-> price, specs |-> specs]

\* Objects the service may answer with: complete, padded with blanks, with
\* an empty or null intent, with a blank or null item name.
LLMObjects ==
    {LLMObject(<<"S">>, <<"y">>, IntNum("1"), Absent),
     LLMObject(<<" ", "B">>, <<"z", " ">>, Absent, <<"v">>),
     LLMObject(<<>>, <<"y">>, IntNum("1"), Absent),
     LLMObject(<<"S">>, <<" ">>, Absent, Absent),
     LLMObject(<<"S">>, NoneVal, IntNum("1"), Absent),
     LLMObject(NoneVal, <<"y">>, IntNum("1"), Absent)}

\* What _call_api returns: None, one parsed object, a parsed array, or a
\* parsed JSON value of another type (a number, a string).
ApiNone       == [kind |-> "none", val |-> <<>>]
ApiDict(o)    == [kind |-> "dict", val |-> <<o>>]
ApiList(objs) == [kind |-> "list", val |-> objs]
ApiOther      == [kind |-> "other", val |-> <<>>]

ApiResults ==
    {ApiNone, ApiOther}
        \cup {ApiDict(o) : o \in LLMObjects}
        \cup {ApiList(l) : l \in SeqUpTo(LLMObjects, MaxObjects)}

\* A message content that json.loads rejects.
NotJson == [kind |-> "not_json", val |-> <<>>]

\* How client.post ends: it raises httpx.TimeoutException, it raises
\* another httpx.RequestError (the connection failed), or it returns a
\* response with a status code, an envelope (the body) and, inside a
\* well-formed envelope, the assistant's message content.
Timeout      == [kind |-> "timeout", status |-> "-", envelope |-> "-", content |-> NotJson]
RequestError == [kind |-> "request_error", status |-> "-", envelope |-> "-", content |-> NotJson]
Response(status, envelope, content) == [kind |-> "response", status |-> status, envelope |-> envelope, content |-> content]

\* The envelope is "ok" (JSON with choices[0].message.content), "not_json"
\* (response.json() raises) or "no_choices" (JSON of another shape).  The
\* content of a well-formed envelope is JSON text, given here by the value
\* it parses to (ApiNone for null), or text that is not JSON.
HttpOutcomes ==
    {Timeout, RequestError}
        \cup {Response("200", "ok", c) : c \in ApiResults \cup {NotJson}}
        \cup {Response("500", "ok", ApiDict(LLMObject(<<"S">>, <<"y">>, IntNum("1"), Absent))),
              Response("401", "not_json", NotJson),
              Response("200", "not_json", NotJson),
              Response("200", "no_choices", NotJson)}

\* A _call_api that sends the request a second time after a failure.
Mut_Posts_RetriesOnFailure(http) ==
    IF http.kind = "response" /\ http.status = "200" /\ http.envelope = "ok"
    THEN 1 ELSE 2

\* The requests one _call_api makes: client.post stands outside any loop
\* and every branch after it returns, so it is one request whatever its
\* outcome.
Posts(http) == 1

\* A _call_api that parses the body whatever the status code is.
Mut__call_api_NoStatusCheck(http) ==
    IF http.kind = "timeout" THEN ApiNone
    ELSE IF http.kind = "request_error" THEN ApiNone
    ELSE IF http.envelope # "ok" THEN ApiNone
    ELSE IF http.content = NotJson THEN ApiNone
    ELSE http.content

\* _call_api: one client.post; every failure is logged and becomes None.
_call_api(http) ==
    IF http.kind = "timeout" THEN ApiNone
    ELSE IF http.kind = "request_error" THEN ApiNone
    ELSE IF http.status # "200" THEN ApiNone
    ELSE IF http.envelope # "ok" THEN ApiNone
    ELSE IF http.content = NotJson THEN ApiNone
    ELSE http.content

\* analyze(): None -> [], a dict -> [dict], a list -> the list, any other
\* value -> [].
analyze(result) ==
    IF result.kind = "none" THEN <<>>
    ELSE IF result.kind = "dict" THEN result.val
    ELSE IF result.kind = "list" THEN result.val
    ELSE <<>>

\* The limiter, scaled down: _rate_limit calls per window, time counted in
\* readings of time.monotonic() (which never goes backwards, and may give
\* the same reading twice).
_rate_limit == 2
window == 3
MaxClock == 7
MaxCalls == 5

\* By how much time.sleep may overshoot, and how much time may pass between
\* two readings of the clock within one call.
Delays == {0, 1}

\* while self._rate_window and now - self._rate_window[0] > window: popleft()
RECURSIVE PopExpired(_, _)
PopExpired(w, now) ==
    IF w # <<>> /\ now - Head(w) > window THEN PopExpired(Tail(w), now) ELSE w

\* _throttle as a function of the deque, the clock reading on entry, the
\* overshoot of the sleep and the lag before the timestamp is taken.
_throttle_fn(w, now, over, lag) ==
    LET w1        == PopExpired(w, now)
        full      == Len(w1) >= _rate_limit
        sleep_for == IF full THEN window - (now - w1[1]) ELSE 0
        slept     == IF full /\ sleep_for > 0 THEN sleep_for + over ELSE 0
        now2      == now + slept
        w2        == IF full THEN PopExpired(w1, now2) ELSE w1
        stamp     == now2 + lag
    IN [rate_window |-> Append(w2, stamp), slept |-> slept, stamp |-> stamp]

\* analyze() passes the limiter: _throttle() returns and the request is
\* issued.  The call is never refused: _throttle has no other exit.
_throttle(over, lag) ==
    LET res == _throttle_fn(_rate_window, clock, over, lag) IN
    /\ Len(gw_issued) < MaxCalls
    /\ res.stamp <= MaxClock
    /\ _rate_window' = res.rate_window
    /\ clock' = res.stamp
    /\ gw_issued' = Append(gw_issued, res.stamp)
    /\ gw_last' = [done |-> TRUE, arrived |-> clock, slept |-> res.slept,
                   issued |-> res.stamp, passed |-> TRUE]
    /\ UNCHANGED <<gw_threads, dedupVars, storeVars, procVars, mainVars>>

\* Time passes between two calls.
Tick ==
    /\ clock < MaxClock
    /\ clock' = clock + 1
    /\ UNCHANGED <<_rate_window, gw_issued, gw_last, gw_threads, dedupVars,
                   storeVars, procVars, mainVars>>

\* Two threads that share one gateway.  _throttle() takes no lock, so
\* another thread can run between the capacity check and the append; a
\* thread's pass through _throttle() is taken in the steps at which it
\* reads or writes the shared deque.
Threads == {"T1", "T2"}

\* A thread outside _throttle(), before its first call.
ThreadIdle ==
    [pc |-> "idle", done |-> FALSE, slept |-> FALSE, saw |-> 0, seen |-> 0,
     wake |-> 0, stamp |-> 0]

\* The calls begun and not yet issued.
InFlight == {t \in Threads : gw_threads[t].pc # "idle"}

\* Lines 179-187: the clock is read, expired entries are dropped and the
\* capacity is checked; the thread goes on to the append, or it starts to
\* sleep until the head entry is one window old.  "saw" is the length of
\* the deque at the check, "seen" the number of calls issued by then.
throttle_check(t) ==
    LET w1        == PopExpired(_rate_window, clock)
        full      == Len(w1) >= _rate_limit
        sleep_for == IF full THEN window - (clock - w1[1]) ELSE 0
    IN /\ gw_threads[t].pc = "idle"
       /\ Len(gw_issued) + Cardinality(InFlight) < MaxCalls
       /\ _rate_window' = w1
       /\ gw_threads' = [gw_threads EXCEPT ![t] =
              [pc    |-> IF full /\ sleep_for > 0 THEN "sleeping" ELSE "append",
               done  |-> FALSE,
               slept |-> full /\ sleep_for > 0,
               saw   |-> Len(w1),
               seen  |-> Len(gw_issued),
               wake  |-> clock + sleep_for,
               stamp |-> 0]]
       /\ UNCHANGED <<clock, gw_issued, gw_last, dedupVars, storeVars,
                      procVars, mainVars>>

\* Lines 187-190: time.sleep returns at the wake time or later, the clock
\* is read again and expired entries are dropped.
throttle_wake(t) ==
    /\ gw_threads[t].pc = "sleeping"
    /\ clock >= gw_threads[t].wake
    /\ _rate_window' = PopExpired(_rate_window, clock)
    /\ gw_threads' = [gw_threads EXCEPT ![t].pc = "append"]
    /\ UNCHANGED <<clock, gw_issued, gw_last, dedupVars, storeVars, procVars,
                   mainVars>>

\* A limiter that looks at the deque once more before the append and
\* gives the call up when the deque is full by then.
Mut_throttle_append_Rechecks(t) ==
    /\ gw_threads[t].pc = "append"
    /\ _rate_window' = IF Len(_rate_window) >= _rate_limit THEN _rate_window
                        ELSE Append(_rate_window, clock)
    /\ gw_issued' = IF Len(_rate_window) >= _rate_limit THEN gw_issued
                     ELSE Append(gw_issued, clock)
    /\ gw_threads' = [gw_threads EXCEPT ![t].pc = "idle", ![t].done = TRUE,
                                         ![t].stamp = clock]
    /\ UNCHANGED <<clock, gw_last, dedupVars, storeVars, procVars, mainVars>>

\* Line 191: the timestamp is appended, whatever the deque holds by now;
\* _throttle() returns and the request is issued.
throttle_append(t) ==
    /\ gw_threads[t].pc = "append"
    /\ _rate_window' = Append(_rate_window, clock)
    /\ gw_issued' = Append(gw_issued, clock)
    /\ gw_threads' = [gw_threads EXCEPT ![t].pc = "idle", ![t].done = TRUE,
                                         ![t].stamp = clock]
    /\ UNCHANGED <<clock, gw_last, dedupVars, storeVars, procVars, mainVars>>

\* dict.get(key, default) on a modelled object field.
Get(v, default) == IF v = Absent THEN default ELSE v

\* Python truthiness of a field value.
Truthy(v) == v \notin {NoneVal, Absent, <<>>}

\* re.compile(pattern, re.IGNORECASE).search(text) for a literal pattern.
Search(pattern, text) == Contains(Lower(pattern), Lower(text))

_contains_any(text, patterns) ==
    \E i \in DOMAIN patterns : Search(patterns[i], text)

\* An is_trade_related for which an empty whitelist matches nothing.
Mut_is_trade_related_fn_EmptyRejects(c, message) ==
    IF _contains_any(message.content, c.blacklist_patterns) THEN FALSE
    ELSE _contains_any(message.content, c.intent_patterns)

\* An is_trade_related that never consults the blacklist.
Mut_is_trade_related_fn_NoBlacklist(c, message) ==
    IF c.intent_patterns = <<>> THEN TRUE
    ELSE _contains_any(message.content, c.intent_patterns)

is_trade_related_fn(c, message) ==
    IF _contains_any(message.content, c.blacklist_patterns) THEN FALSE
    ELSE IF c.intent_patterns = <<>> THEN TRUE
    ELSE _contains_any(message.content, c.intent_patterns)

buy_keywords ==
    << <<"qiu", "gou">>, <<"shou">>, <<"mai3">>, <<"xu", "qiu">>, <<"yao">> >>
sell_keywords ==
    << <<"chu">>, <<"mai4">>, <<"chu", "shou4">>, <<"you", "huo">>,
       <<"gong", "ying">> >>

\* s.split(keyword, 1)[1]: the text after the first occurrence of keyword.
AfterFirst(keyword, s) ==
    SubSeq(s, FirstIndex(keyword, s) + Len(keyword), Len(s))

\* The first run of non-blank characters of s (s.split()[0]).
RECURSIVE TakeWord(_)
TakeWord(s) == IF s = <<>> \/ IsSpace(Head(s)) THEN <<>>
               ELSE <<Head(s)>> \o TakeWord(Tail(s))

\* s.split()[0].upper() if s.split() else "UNKNOWN"
ItemAfter(rest) ==
    IF LStrip(rest) = <<>> THEN <<"U", "N", "K", "N", "O", "W", "N">>
    ELSE Upper(TakeWord(LStrip(rest)))

\* The first keyword of the list, in list order, that occurs in the text.
FirstKeyword(keywords, text) ==
    IF \E i \in DOMAIN keywords : Contains(keywords[i], text)
    THEN LET i == CHOOSE k \in DOMAIN keywords :
                      /\ Contains(keywords[k], text)
                      /\ \A j \in 1..(k - 1) : ~Contains(keywords[j], text)
         IN <<keywords[i]>>
    ELSE <<>>

BasicSignal(message, intent, item) ==
    MarketSignal(message.id, intent, message.timestamp, message.room,
                 message.sender, message.content, item, NoneVal, NoneVal,
                 "0.6")

\* A fallback extractor that looks for sell keywords first.
Mut__extract_basic_info_SellFirst(message) ==
    LET content_stripped == Strip(Lower(message.content))
        buy  == FirstKeyword(buy_keywords, content_stripped)
        sell == FirstKeyword(sell_keywords, content_stripped)
    IN IF sell # <<>>
       THEN <<BasicSignal(message, <<"s", "e", "l", "l">>,
                          ItemAfter(AfterFirst(sell[1], content_stripped)))>>
       ELSE IF buy # <<>>
       THEN <<BasicSignal(message, <<"b", "u", "y">>,
                          ItemAfter(AfterFirst(buy[1], content_stripped)))>>
       ELSE <<>>

_extract_basic_info(message) ==
    LET content_stripped == Strip(Lower(message.content))
        buy  == FirstKeyword(buy_keywords, content_stripped)
        sell == FirstKeyword(sell_keywords, content_stripped)
    IN IF buy # <<>>
       THEN <<BasicSignal(message, <<"b", "u", "y">>,
                          ItemAfter(AfterFirst(buy[1], content_stripped)))>>
       ELSE IF sell # <<>>
       THEN <<BasicSignal(message, <<"s", "e", "l", "l">>,
                          ItemAfter(AfterFirst(sell[1], content_stripped)))>>
       ELSE <<>>

\* llm_result.get("intent", "").strip() raises AttributeError on null.
IntentRaises(obj) == Get(obj.intent, <<>>) = NoneVal

IntentOf(obj) == Strip(Get(obj.intent, <<>>))
ItemNameOf(obj) == IF Truthy(obj.item_name) THEN Strip(obj.item_name) ELSE <<>>

LLMSignal(message, obj) ==
    MarketSignal(message.id, IntentOf(obj), message.timestamp, message.room,
                 message.sender, message.content, ItemNameOf(obj),
                 Get(obj.price, NoneVal), Get(obj.specs, NoneVal), "0.9")

\* The loop over llm_results: one signal per object with intent and item.
RECURSIVE LLMSignals(_, _)
LLMSignals(message, objs) ==
    IF objs = <<>> THEN <<>>
    ELSE LET rest == LLMSignals(message, Tail(objs)) IN
         IF IntentOf(Head(objs)) # <<>> /\ ItemNameOf(Head(objs)) # <<>>
         THEN <<LLMSignal(message, Head(objs))>> \o rest
         ELSE rest

Outcome(ret, raised, gateway_calls, fallback_called) ==
    [done |-> TRUE, ret |-> ret, raised |-> raised,
     gateway_calls |-> gateway_calls, fallback_called |-> fallback_called]

Dropped == Outcome(<<>>, FALSE, 0, FALSE)

\* An extraction stage that calls the gateway whatever the settings say.
Mut_ExtractStage_IgnoresEnabled(c, message, api) ==
    LET llm_results == analyze(api) IN
    IF llm_results # <<>>
    THEN IF \E i \in DOMAIN llm_results : IntentRaises(llm_results[i])
         THEN Outcome(<<>>, TRUE, 1, FALSE)
         ELSE Outcome(LLMSignals(message, llm_results), FALSE, 1, FALSE)
    ELSE Outcome(_extract_basic_info(message), FALSE, 1, TRUE)

\* Step 3 and step 4 of process(): extraction, or the fallback.
ExtractStage(c, message, api) ==
    IF c.enabled
    THEN LET llm_results == analyze(api) IN
         IF llm_results # <<>>
         THEN IF \E i \in DOMAIN llm_results : IntentRaises(llm_results[i])
              THEN Outcome(<<>>, TRUE, 1, FALSE)
              ELSE Outcome(LLMSignals(message, llm_results), FALSE, 1, FALSE)
         ELSE Outcome(_extract_basic_info(message), FALSE, 1, TRUE)
    ELSE Outcome(_extract_basic_info(message), FALSE, 0, TRUE)

\* A process() in which a whitelist match outranks the blacklist.
Mut_process_fn_IntentFirst(c, message, api) ==
    IF c.intent_patterns # <<>>
       /\ _contains_any(message.content, c.intent_patterns)
    THEN ExtractStage(c, message, api)
    ELSE IF _contains_any(message.content, c.blacklist_patterns) THEN Dropped
    ELSE IF c.intent_patterns # <<>> THEN Dropped
    ELSE ExtractStage(c, message, api)

\* A process() without the whitelist stage.
Mut_process_fn_NoWhitelist(c, message, api) ==
    IF _contains_any(message.content, c.blacklist_patterns) THEN Dropped
    ELSE ExtractStage(c, message, api)

\* process() as a function of the settings, the message and the service's
\* answer: what it returns, whether it raised, and what it called.
process_fn(c, message, api) ==
    IF _contains_any(message.content, c.blacklist_patterns) THEN Dropped
    ELSE IF c.intent_patterns # <<>>
            /\ ~_contains_any(message.content, c.intent_patterns) THEN Dropped
    ELSE ExtractStage(c, message, api)

Pending == [done |-> FALSE]

is_trade_related ==
    /\ ~pr_trade.done
    /\ pr_trade' = [done |-> TRUE, ret |-> is_trade_related_fn(cfg, pr_msg)]
    /\ UNCHANGED <<cfg, pr_msg, pr_http, pr_api, pr_out, pr_first, dedupVars,
                   storeVars, gwVars, mainVars>>

process ==
    /\ ~pr_out.done
    /\ pr_out' = process_fn(cfg, pr_msg, pr_api)
    /\ UNCHANGED <<cfg, pr_msg, pr_http, pr_api, pr_trade, pr_first, dedupVars,
                   storeVars, gwVars, mainVars>>

\* One more run of process(): the caller hands over a message, the service
\* answers in its own way this time, and process() returns.  The first run
\* of the series is kept, with a note of whether a run on another message
\* was made after it.
NoRun == [done |-> FALSE]

\* A process() that hands back the previous run's result when the message
\* differs from the previous one.
Mut_process_run_StaleResult(m, http) ==
    /\ pr_msg' = m
    /\ pr_http' = http
    /\ pr_api' = _call_api(http)
    /\ pr_out' = IF pr_out.done /\ pr_msg # m THEN pr_out
                 ELSE process_fn(cfg, m, _call_api(http))
    /\ pr_first' = IF ~pr_first.done
                   THEN [done |-> TRUE, msg |-> m, http |-> http,
                         out |-> pr_out', others |-> FALSE]
                   ELSE IF m # pr_first.msg
                   THEN [pr_first EXCEPT !.others = TRUE]
                   ELSE pr_first
    /\ UNCHANGED <<cfg, pr_trade, dedupVars, storeVars, gwVars, mainVars>>

process_run(m, http) ==
    /\ pr_msg' = m
    /\ pr_http' = http
    /\ pr_api' = _call_api(http)
    /\ pr_out' = process_fn(cfg, m, _call_api(http))
    /\ pr_first' = IF ~pr_first.done
                   THEN [done |-> TRUE, msg |-> m, http |-> http,
                         out |-> pr_out', others |-> FALSE]
                   ELSE IF m # pr_first.msg
                   THEN [pr_first EXCEPT !.others = TRUE]
                   ELSE pr_first
    /\ UNCHANGED <<cfg, pr_trade, dedupVars, storeVars, gwVars, mainVars>>

\* The messages and the service's answers of a series of runs.
RunMessages ==
    {ProcMessage(<<"chu", "x">>), ProcMessage(<<"shou">>), ProcMessage(<<"x">>)}

RunAnswers ==
    {Timeout,
     Response("200", "ok", ApiDict(LLMObject(<<"S">>, <<"y">>, IntNum("1"), Absent))),
     Response("200", "ok", ApiList(<<>>))}

\* settings.rules.intent_whitelist / blacklist / intelligence.enabled
IntentWhitelists == {<<>>, << <<"chu">> >>, << <<"shou">>, <<"chu", "X">> >>}
Blacklists       == {<<>>, << <<"X">> >>}

Settings ==
    [intent_patterns : IntentWhitelists, blacklist_patterns : Blacklists,
     enabled : BOOLEAN]

(***************************************************************************)
(* WeChatClient.get_recent_messages and the monitoring loop of main()      *)
(***************************************************************************)

\* How many messages the chat window shows in one scan.
MaxScan == 2

\* The messages the chat window can show: (time, sender, content) as read
\* from the window, a missing time already replaced by the current time.
UiMessages ==
    {[timestamp |-> "t1", sender |-> <<"a">>, content |-> <<"chu", "x">>],
     [timestamp |-> "t1", sender |-> <<"a">>, content |-> <<"x">>],
     [timestamp |-> "t2", sender |-> <<"a">>, content |-> <<"x">>]}

UiScans == SeqUpTo(UiMessages, MaxScan)

\* The session the messages are read from.
chat_name == <<"g">>

\* RawMessage(id=msg_id, content, sender, room, timestamp) of the collector.
RawMessage(t, chat) ==
    [id |-> HashOf(t), content |-> t.content, sender |-> t.sender,
     room |-> IF chat # t.sender THEN chat ELSE NoneVal,
     timestamp |-> t.timestamp]

\* A collector that returns a message whether or not is_duplicate knows it.
Mut_ScanStep_KeepsDuplicates(acc, t, chat) ==
    LET res == is_duplicate_fn(acc.window, t) IN
    [window   |-> res[2],
     messages |-> Append(acc.messages, RawMessage(t, chat)),
     scan     |-> Append(acc.scan, [t |-> t,
                                    inwin |-> HashOf(t) \in Range(acc.window),
                                    ret |-> res[1]])]

\* One turn of the loop over msg_list: the duplicate check, and for a
\* message that is not a duplicate the RawMessage appended to the result.
ScanStep(acc, t, chat) ==
    LET res == is_duplicate_fn(acc.window, t) IN
    [window   |-> res[2],
     messages |-> IF res[1] THEN acc.messages
                  ELSE Append(acc.messages, RawMessage(t, chat)),
     scan     |-> Append(acc.scan, [t |-> t,
                                    inwin |-> HashOf(t) \in Range(acc.window),
                                    ret |-> res[1]])]

RECURSIVE ScanAll(_, _, _)
ScanAll(acc, msg_list, chat) ==
    IF msg_list = <<>> THEN acc
    ELSE ScanAll(ScanStep(acc, Head(msg_list), chat), Tail(msg_list), chat)

\* _scan_target_sessions as a function of the dedup window and of what the
\* chat window shows; when reading the window fails the exception is
\* logged and the result is the empty list.
_scan_target_sessions(win, msg_list, fails) ==
    IF fails THEN [window |-> win, messages |-> <<>>, scan |-> <<>>]
    ELSE ScanAll([window |-> win, messages |-> <<>>, scan |-> <<>>],
                 msg_list, chat_name)

\* messages = client.get_recent_messages(): the start of a tick.  The call
\* history kept for the deduplicator's own properties is not continued
\* here.
get_recent_messages(msg_list, fails) ==
    LET res == _scan_target_sessions(seen_hashes, msg_list, fails) IN
    /\ mn_pc = "collect"
    /\ seen_hashes' = res.window
    /\ mn_messages' = res.messages
    /\ mn_scan' = res.scan
    /\ mn_handled' = <<>>
    /\ mn_pc' = "for"
    /\ UNCHANGED <<dd_hist, dd_since, storeVars, procVars, gwVars, mn_stop,
                   mn_restarted>>

\* The settings the monitoring process runs with.
MainSettings ==
    [intent_patterns |-> << <<"chu">> >>, blacklist_patterns |-> <<>>,
     enabled |-> TRUE]

\* How the request for one message can end: an answer whose object has the
\* price 1, the price 1.0, a null intent, or a price beyond 64 bits.
MainAnswers ==
    {Response("200", "ok", ApiDict(LLMObject(<<"S">>, <<"y">>, IntNum("1"), Absent))),
     Response("200", "ok", ApiDict(LLMObject(<<"S">>, <<"y">>, FloatNum("1"), Absent))),
     Response("200", "ok", ApiDict(LLMObject(NoneVal, <<"y">>, IntNum("1"), Absent))),
     Response("200", "ok", ApiDict(LLMObject(<<"S">>, <<"y">>, HugeInt, Absent)))}

\* The body of `for msg in messages` for one message, as a function of the
\* tables: classification, the audit row, then for a trade message the
\* extraction and the saving of its signals.  An exception raised by
\* process() or by save_signals() leaves the body ("raised").  "stored"
\* lists the ids of the signal rows the call added, in insertion order.
HandleMessage(c, msg, http, audit, table, now) ==
    LET is_trade == is_trade_related_fn(c, msg)
        audit2   == save_raw_message_fn(audit, msg, is_trade, now)
        out      == process_fn(c, msg, _call_api(http))
        saves    == is_trade /\ ~out.raised /\ out.ret # <<>>
        saved    == save_signals_fn(out.ret, audit2, table)
    IN [is_trade  |-> is_trade,
        processed |-> is_trade,
        signals   |-> IF is_trade /\ ~out.raised THEN out.ret ELSE <<>>,
        saves     |-> saves,
        save_ok   |-> saves /\ saved[1] = "ok",
        stored    |-> IF saves /\ saved[1] = "ok"
                      THEN InsertedIds(table, [i \in DOMAIN out.ret |->
                                                  SignalRow(out.ret[i])])
                      ELSE <<>>,
        raised    |-> is_trade /\ (out.raised \/ (saves /\ saved[1] = "raised")),
        audit     |-> audit2,
        table     |-> IF saves THEN saved[2] ELSE table]

\* A loop that stops itself when a tick raised an exception.
Mut_handle_message_ExitsOnError(http) ==
    LET msg == mn_messages[Len(mn_handled) + 1]
        res == HandleMessage(cfg, msg, http, raw_messages, trade_signals, st_day)
    IN /\ mn_pc = "for"
       /\ Len(mn_handled) < Len(mn_messages)
       /\ raw_messages' = res.audit
       /\ trade_signals' = res.table
       /\ st_last' = IF res.saves
                     THEN [op |-> "save_signals", batch |-> res.signals,
                           ok |-> res.save_ok,
                           raised |-> res.raised /\ ~res.save_ok]
                     ELSE [op |-> "save_raw_message", batch |-> <<>>,
                           ok |-> TRUE, raised |-> FALSE, id |-> msg.id,
                           is_trade |-> res.is_trade]
       /\ mn_handled' = Append(mn_handled,
                               [id |-> msg.id, is_trade |-> res.is_trade,
                                processed |-> res.processed,
                                signals |-> res.signals,
                                stored |-> res.stored,
                                raised |-> res.raised])
       /\ mn_pc' = IF res.raised THEN "exited" ELSE "for"
       /\ UNCHANGED <<st_day, dedupVars, procVars, gwVars, mn_messages,
                      mn_scan, mn_stop, mn_restarted>>

\* A for loop that takes the messages of the batch from the end.
Mut_handle_message_LastFirst(http) ==
    LET msg == mn_messages[Len(mn_messages) - Len(mn_handled)]
        res == HandleMessage(cfg, msg, http, raw_messages, trade_signals, st_day)
    IN /\ mn_pc = "for"
       /\ Len(mn_handled) < Len(mn_messages)
       /\ raw_messages' = res.audit
       /\ trade_signals' = res.table
       /\ st_last' = IF res.saves
                     THEN [op |-> "save_signals", batch |-> res.signals,
                           ok |-> res.save_ok,
                           raised |-> res.raised /\ ~res.save_ok]
                     ELSE [op |-> "save_raw_message", batch |-> <<>>,
                           ok |-> TRUE, raised |-> FALSE, id |-> msg.id,
                           is_trade |-> res.is_trade]
       /\ mn_handled' = Append(mn_handled,
                               [id |-> msg.id, is_trade |-> res.is_trade,
                                processed |-> res.processed,
                                signals |-> res.signals,
                                stored |-> res.stored,
                                raised |-> res.raised])
       /\ mn_pc' = IF res.raised THEN "error_wait" ELSE "for"
       /\ UNCHANGED <<st_day, dedupVars, procVars, gwVars, mn_messages,
                      mn_scan, mn_stop, mn_restarted>>

\* One turn of `for msg in messages`.  An exception ends the for loop and
\* the tick: it is caught by `except Exception` of the while loop.
handle_message(http) ==
    LET msg == mn_messages[Len(mn_handled) + 1]
        res == HandleMessage(cfg, msg, http, raw_messages, trade_signals, st_day)
    IN /\ mn_pc = "for"
       /\ Len(mn_handled) < Len(mn_messages)
       /\ raw_messages' = res.audit
       /\ trade_signals' = res.table
       /\ st_last' = IF res.saves
                     THEN [op |-> "save_signals", batch |-> res.signals,
                           ok |-> res.save_ok,
                           raised |-> res.raised /\ ~res.save_ok]
                     ELSE [op |-> "save_raw_message", batch |-> <<>>,
                           ok |-> TRUE, raised |-> FALSE, id |-> msg.id,
                           is_trade |-> res.is_trade]
       /\ mn_handled' = Append(mn_handled,
                               [id |-> msg.id, is_trade |-> res.is_trade,
                                processed |-> res.processed,
                                signals |-> res.signals,
                                stored |-> res.stored,
                                raised |-> res.raised])
       /\ mn_pc' = IF res.raised THEN "error_wait" ELSE "for"
       /\ UNCHANGED <<st_day, dedupVars, procVars, gwVars, mn_messages,
                      mn_scan, mn_stop, mn_restarted>>

\* store.cleanup_raw_messages() after the for loop; its errors are logged
\* inside the store.
main_cleanup ==
    LET res == cleanup_fn(raw_messages, trade_signals, st_day) IN
    /\ mn_pc = "for"
    /\ Len(mn_handled) = Len(mn_messages)
    /\ raw_messages' = res[2]
    /\ trade_signals' = res[3]
    /\ st_last' = [op |-> "cleanup_raw_messages", batch |-> <<>>,
                   ok |-> res[1] = "ok", raised |-> FALSE]
    /\ mn_pc' = "report"
    /\ UNCHANGED <<st_day, dedupVars, procVars, gwVars, mn_messages,
                   mn_handled, mn_scan, mn_stop, mn_restarted>>

\* The report steps of a tick: nothing to do, reports written, or an
\* exception (the settings file cannot be loaded, the output directory
\* cannot be made); the reports only read the store.
main_report(raises) ==
    /\ mn_pc = "report"
    /\ mn_pc' = IF raises THEN "error_wait" ELSE "sleep"
    /\ UNCHANGED <<dedupVars, storeVars, procVars, gwVars, mn_messages,
                   mn_handled, mn_scan, mn_stop, mn_restarted>>

\* time.sleep(scan_interval) at the end of a tick, or time.sleep(5) in the
\* handler of `except Exception`, returns: the while loop starts over.
main_sleep ==
    /\ mn_pc \in {"sleep", "error_wait"}
    /\ mn_pc' = "collect"
    /\ mn_messages' = <<>>
    /\ mn_handled' = <<>>
    /\ mn_scan' = <<>>
    /\ UNCHANGED <<dedupVars, storeVars, procVars, gwVars, mn_stop,
                   mn_restarted>>

\* The operator's interrupt: KeyboardInterrupt is raised where the loop
\* stands, the loop is left and `finally` closes the store.
KeyboardInterrupt ==
    /\ mn_pc # "exited"
    /\ mn_stop' = mn_pc
    /\ mn_pc' = "exited"
    /\ UNCHANGED <<dedupVars, storeVars, procVars, gwVars, mn_messages,
                   mn_handled, mn_scan, mn_restarted>>

\* main() is started again: a new WeChatClient with an empty dedup window,
\* a SqliteStore opened on the database file that is there.
Restart ==
    /\ mn_pc = "exited"
    /\ mn_restarted' = TRUE
    /\ seen_hashes' = <<>>
    /\ mn_pc' = "collect"
    /\ mn_messages' = <<>>
    /\ mn_handled' = <<>>
    /\ mn_scan' = <<>>
    /\ mn_stop' = "none"
    /\ UNCHANGED <<dd_hist, dd_since, storeVars, procVars, gwVars>>

(***************************************************************************)
(* Specifications                                                          *)
(***************************************************************************)

StoreInit ==
    /\ raw_messages = {}
    /\ trade_signals = {}
    /\ st_last = [op |-> "none", batch |-> <<>>, ok |-> TRUE, raised |-> FALSE]
    /\ st_day = 0

\* One processor, one message, one outcome of the request to the service.
ProcInit ==
    /\ cfg \in Settings
    /\ pr_msg \in ProcMessages
    /\ pr_http \in HttpOutcomes
    /\ pr_api = _call_api(pr_http)
    /\ pr_trade = Pending
    /\ pr_out = Pending
    /\ pr_first = NoRun

ProcIdle ==
    /\ cfg = [intent_patterns |-> <<>>, blacklist_patterns |-> <<>>,
              enabled |-> FALSE]
    /\ pr_msg = ProcMessage(<<>>)
    /\ pr_http = Timeout
    /\ pr_api = ApiNone
    /\ pr_trade = Pending
    /\ pr_out = Pending
    /\ pr_first = NoRun

\* A processor with its settings loaded, before any run.
RunsInit ==
    /\ cfg \in Settings
    /\ pr_msg = ProcMessage(<<>>)
    /\ pr_http = Timeout
    /\ pr_api = ApiNone
    /\ pr_trade = Pending
    /\ pr_out = Pending
    /\ pr_first = NoRun

GwInit ==
    /\ clock = 0
    /\ _rate_window = <<>>
    /\ gw_issued = <<>>
    /\ gw_last = [done |-> FALSE]
    /\ gw_threads = [t \in Threads |-> ThreadIdle]

\* main() has built the client, the processor and the store and stands
\* before the first tick of its loop.
MainInit ==
    /\ mn_pc = "collect"
    /\ mn_messages = <<>>
    /\ mn_handled = <<>>
    /\ mn_scan = <<>>
    /\ mn_stop = "none"
    /\ mn_restarted = FALSE

Init == DedupInit /\ StoreInit /\ ProcIdle /\ GwInit /\ MainInit

InitProc == DedupInit /\ StoreInit /\ ProcInit /\ GwInit /\ MainInit

InitRuns == DedupInit /\ StoreInit /\ RunsInit /\ GwInit /\ MainInit

GwNext == Tick \/ \E over \in Delays, lag \in Delays : _throttle(over, lag)

SpecGateway == Init /\ [][GwNext]_vars

\* Two threads calling analyze() on one gateway, in any interleaving.
ThreadsNext ==
    \/ Tick
    \/ \E t \in Threads : throttle_check(t)
    \/ \E t \in Threads : throttle_wake(t)
    \/ \E t \in Threads : throttle_append(t)

SpecThreads == Init /\ [][ThreadsNext]_vars

RunsNext == \E m \in RunMessages, http \in RunAnswers : process_run(m, http)

SpecRuns == InitRuns /\ [][RunsNext]_vars

ProcNext == is_trade_related \/ process

SpecProc == InitProc /\ [][ProcNext]_vars

DedupNext == \E t \in Triples : is_duplicate(t)

SpecDedup == Init /\ [][DedupNext]_vars

StoreNext ==
    \/ \E id \in StoreMsgIds, is_trade \in BOOLEAN :
          save_raw_message(RawMessageOf(id), is_trade)
    \/ \E signals \in Batches : save_signals(signals)

SpecStore == Init /\ [][StoreNext]_vars

\* The monitoring process: ticks, the operator's interrupt and restarts.
InitMain ==
    /\ DedupInit /\ StoreInit /\ GwInit /\ MainInit
    /\ cfg = MainSettings
    /\ pr_msg = ProcMessage(<<>>)
    /\ pr_http = Timeout
    /\ pr_api = ApiNone
    /\ pr_trade = Pending
    /\ pr_out = Pending
    /\ pr_first = NoRun

MainNext ==
    \/ \E msg_list \in UiScans, fails \in BOOLEAN :
          get_recent_messages(msg_list, fails)
    \/ \E http \in MainAnswers : handle_message(http)
    \/ main_cleanup
    \/ \E raises \in BOOLEAN : main_report(raises)
    \/ main_sleep
    \/ KeyboardInterrupt
    \/ Restart

SpecMain == InitMain /\ [][MainNext]_vars

\* Ticks over batches of trade messages whose answers carry two objects:
\* two messages that differ in their time, and for each message an array
\* of two objects (alike or not), or an object that makes process() raise.
BatchMessages ==
    {[timestamp |-> "t1", sender |-> <<"a">>, content |-> <<"chu", "x">>],
     [timestamp |-> "t2", sender |-> <<"a">>, content |-> <<"chu", "x">>]}

BatchScans == SeqUpTo(BatchMessages, MaxScan)

BatchObjects ==
    {LLMObject(<<"S">>, <<"y">>, IntNum("1"), Absent),
     LLMObject(<<"S">>, <<"z">>, IntNum("1"), Absent)}

BatchAnswers ==
    {Response("200", "ok", ApiList(l)) : l \in [1..2 -> BatchObjects]}
        \cup {Response("200", "ok", ApiDict(LLMObject(NoneVal, <<"y">>, IntNum("1"), Absent)))}

BatchNext ==
    \/ \E msg_list \in BatchScans, fails \in BOOLEAN :
          get_recent_messages(msg_list, fails)
    \/ \E http \in BatchAnswers : handle_message(http)
    \/ main_cleanup
    \/ \E raises \in BOOLEAN : main_report(raises)
    \/ main_sleep
    \/ KeyboardInterrupt
    \/ Restart

SpecBatch == InitMain /\ [][BatchNext]_vars

\* The store over several days: audit rows, signals saved one at a time,
\* the retention sweep of each tick.
SingleBatches == {b \in Batches : Len(b) = 1}

RetentionNext ==
    \/ \E id \in StoreMsgIds, is_trade \in BOOLEAN :
          save_raw_message(RawMessageOf(id), is_trade)
    \/ \E signals \in SingleBatches : save_signals(signals)
    \/ cleanup_raw_messages
    \/ NextDay

SpecRetention == Init /\ [][RetentionNext]_vars

(***************************************************************************)
(* Properties of the deduplicator                                          *)
(***************************************************************************)

LastCall == dd_hist[Len(dd_hist)]

\* C3: for a triple whose hash is not in the window, two successive
\* is_duplicate calls with that triple return false and then true, and the
\* first of them records the triple's hash in the window.
C3_FalseThenTrue ==
    /\ (Len(dd_hist) >= 1 /\ LastCall.fresh) =>
          (LastCall.ret = FALSE /\ HashOf(LastCall.t) \in Range(seen_hashes))
    /\ (Len(dd_hist) = 2 /\ dd_hist[1].fresh /\ dd_hist[2].t = dd_hist[1].t) =>
          (dd_hist[1].ret = FALSE /\ dd_hist[2].ret = TRUE)

C3_Witness ==
    /\ Len(dd_hist) = 2
    /\ dd_hist[1].fresh
    /\ dd_hist[2].t = dd_hist[1].t
    /\ dd_hist[2].ret = TRUE

\* C4: once WindowCap further hashes have been appended after a recorded
\* triple, that triple's hash has been evicted, and is_duplicate on it
\* returns false again.
C4_EvictedAfterCap ==
    /\ \A h \in Hashes : Aged(dd_since, h) => h \notin Range(seen_hashes)
    /\ (Len(dd_hist) >= 1 /\ LastCall.aged) => LastCall.ret = FALSE

C4_Witness ==
    /\ Len(dd_hist) >= 1
    /\ LastCall.aged
    /\ LastCall.ret = FALSE

\* C27: after any sequence of is_duplicate calls, a triple that was
\* recorded and after which fewer than WindowCap hashes were recorded is
\* still in the window, and is_duplicate on it returns true.
C27_NoFalseNegativeInWindow ==
    /\ \A h \in DOMAIN dd_since :
          dd_since[h] < WindowCap => h \in Range(seen_hashes)
    /\ (Len(dd_hist) >= 1 /\ LastCall.known /\ ~LastCall.aged) =>
          LastCall.ret = TRUE

\* A triple was found again with the window filled up after it.
C27_Witness ==
    /\ Len(dd_hist) >= 1
    /\ LastCall.ret = TRUE
    /\ dd_since[HashOf(LastCall.t)] = WindowCap - 1

\* C28: an is_duplicate call that returns true leaves the window as it
\* was, so finding a triple again does not renew it: once WindowCap hashes
\* were appended after the triple's own append it is out of the window,
\* however often it was found in between.
C28_HitLeavesWindowUnchanged ==
    /\ [][LastCall'.ret => seen_hashes' = seen_hashes]_vars
    /\ [](\A h \in DOMAIN dd_since :
             dd_since[h] >= WindowCap => h \notin Range(seen_hashes))

\* A triple was found again as the oldest entry of a full window, and the
\* next call, on a new triple, evicted it.
C28_Witness ==
    /\ Len(dd_hist) = 2
    /\ dd_hist[1].ret = TRUE
    /\ dd_hist[2].ret = FALSE
    /\ Aged(dd_since, HashOf(dd_hist[1].t))
    /\ HashOf(dd_hist[1].t) \notin Range(seen_hashes)

\* C38: is_duplicate returns true only for a triple whose exact timestamp,
\* sender and content were recorded earlier.  Taken at the call that
\* follows the first recording of a digest input (nothing with that digest
\* was recorded before it): if that next call meets the same digest and
\* returns true, its triple is the recorded one, and not one that differs
\* from it in where the sender ends and the content begins.
C38_TrueOnlyForRecordedTriple ==
    (/\ Len(dd_hist) = 2
     /\ ~dd_hist[1].known
     /\ HashOf(dd_hist[2].t) = HashOf(dd_hist[1].t)
     /\ dd_hist[2].ret = TRUE) =>
        dd_hist[2].t = dd_hist[1].t

(***************************************************************************)
(* Properties of the store                                                 *)
(***************************************************************************)

HasAudit(id) == \E a \in raw_messages : a.id = id

\* The rows of trade_signals whose key columns hold the tuple of signal s.
RowsHolding(s) ==
    {r \in trade_signals :
        /\ r.raw_msg_id = s.raw_msg_id
        /\ r.intent = s.intent
        /\ r.item = s.item
        /\ PyEq(r.price, s.price)
        /\ r.specs = s.specs}

\* Two signals are the same tuple (raw_msg_id, intent, item, price, specs).
SameTuple(s, t) ==
    /\ s.raw_msg_id = t.raw_msg_id
    /\ s.intent = t.intent
    /\ s.item = t.item
    /\ PyEq(s.price, t.price)
    /\ s.specs = t.specs

\* C1: after a save_signals call that ended without error, every tuple of
\* the batch whose audit row exists is held by exactly one row of
\* trade_signals.
C1_ExactlyOneRow ==
    (st_last.op = "save_signals" /\ st_last.ok) =>
        \A i \in DOMAIN st_last.batch :
            HasAudit(st_last.batch[i].raw_msg_id) =>
                Cardinality(RowsHolding(st_last.batch[i])) = 1

\* C2: two signals of a saved batch whose tuples differ in some field get
\* different storage ids and are stored as two distinct rows.
C2_DistinctTuplesDistinctRows ==
    (st_last.op = "save_signals" /\ st_last.ok) =>
        \A i, j \in DOMAIN st_last.batch :
            ~SameTuple(st_last.batch[i], st_last.batch[j]) =>
                /\ _signal_id(st_last.batch[i]) # _signal_id(st_last.batch[j])
                /\ RowsHolding(st_last.batch[i]) # {}
                /\ RowsHolding(st_last.batch[j]) # {}
                /\ RowsHolding(st_last.batch[i]) # RowsHolding(st_last.batch[j])

TableIds(table) == {r.id : r \in table}

BatchIds(batch) == {_signal_id(batch[i]) : i \in DOMAIN batch}

\* C17: after cleanup_raw_messages has run, no audit row older than
\* raw_retention_days remains in raw_messages, whether or not signal rows
\* reference it.
C17_NoExpiredRowAfterCleanup ==
    [][(st_last'.op = "cleanup_raw_messages" /\ st_day' = st_day) =>
          \A a \in raw_messages' : ~Expired(a, st_day')]_vars

\* C18: no store operation deletes or changes a signal row: in every step
\* the rows of trade_signals are kept as they are (the set only grows), and
\* no id is ever held by two rows, so a row keeps its first-written values.
C18_SignalRowsOnlyGrow ==
    /\ [](\A r1, r2 \in trade_signals : r1.id = r2.id => r1 = r2)
    /\ [][trade_signals \subseteq trade_signals']_vars

\* A sweep met an expired audit row that signal rows reference, and a
\* signal row has the id of a batch row with other values.
C18_Witness ==
    /\ st_last.op = "cleanup_raw_messages"
    /\ \E a \in raw_messages, r \in trade_signals :
          Expired(a, st_day) /\ r.raw_msg_id = a.id
    /\ \E r \in trade_signals, s \in SignalsOf(<<"m1">>) :
          r.id = _signal_id(s) /\ r # SignalRow(s)

\* C19: a save_signals call is atomic: it either commits every row of its
\* batch (a row whose id is already stored being skipped) or commits none,
\* and when a row of the batch causes an exception it commits none.
C19_BatchAllOrNothing ==
    [][st_last'.op = "save_signals" =>
          /\ \/ trade_signals' = trade_signals
             \/ /\ trade_signals \subseteq trade_signals'
                /\ TableIds(trade_signals') =
                      TableIds(trade_signals) \cup BatchIds(st_last'.batch)
          /\ ~st_last'.ok => trade_signals' = trade_signals]_vars

\* The signal can be stored by itself: its values can be bound and its
\* audit row exists.
Storable(s) == BindRow(SignalRow(s)) = "ok" /\ HasAudit(s.raw_msg_id)

\* A batch whose first row was new and storable was discarded because of
\* a later row.
C19_Witness ==
    /\ st_last.op = "save_signals"
    /\ ~st_last.ok
    /\ Len(st_last.batch) >= 2
    /\ Storable(st_last.batch[1])
    /\ _signal_id(st_last.batch[1]) \notin TableIds(trade_signals)

\* C20: when storing one item of a batch fails, only that item is skipped:
\* the storable signals of the batch are stored, and save_signals returns
\* to the control loop, which goes on with the rest of the tick.
C20_OnlyFailedItemSkipped ==
    (st_last.op = "save_signals"
        /\ \E i \in DOMAIN st_last.batch : ~Storable(st_last.batch[i])) =>
        /\ ~st_last.raised
        /\ \A i \in DOMAIN st_last.batch :
              Storable(st_last.batch[i]) =>
                  _signal_id(st_last.batch[i]) \in TableIds(trade_signals)

\* C26: save_raw_message for an id that already has an audit row leaves
\* the table as it was: the row keeps content, sender, room, timestamp,
\* ingested_at and is_trade of the first write, also when the call comes
\* later and carries another verdict.
C26_ExistingAuditRowKept ==
    [][(st_last'.op = "save_raw_message" /\ HasAudit(st_last'.id)) =>
          raw_messages' = raw_messages]_vars

\* The call came a day or more after the first write, with the opposite
\* verdict.
C26_Witness ==
    /\ st_last.op = "save_raw_message"
    /\ \E a \in raw_messages :
          /\ a.id = st_last.id
          /\ a.ingested_at < st_day
          /\ a.is_trade # (IF st_last.is_trade THEN 1 ELSE 0)

\* The signal rows that reference audit row a.
ReferencedBy(a) == {r \in trade_signals : r.raw_msg_id = a.id}

\* C34: in every reachable state of the store each signal row's raw_msg_id
\* is the id of an existing audit row; a save_signals for a message that
\* has no audit row stores nothing, and no step removes an audit row that
\* signal rows reference.
C34_SignalRowsHaveAuditRow ==
    /\ [](\A r \in trade_signals : HasAudit(r.raw_msg_id))
    /\ [][(/\ st_last'.op = "save_signals"
           /\ \E i \in DOMAIN st_last'.batch :
                 ~HasAudit(st_last'.batch[i].raw_msg_id)) =>
              trade_signals' = trade_signals]_vars
    /\ [][\A a \in raw_messages :
              ReferencedBy(a) # {} => a \in raw_messages']_vars

\* A sweep ran while an expired audit row was referenced by a signal row.
C34_Witness ==
    /\ st_last.op = "cleanup_raw_messages"
    /\ ~st_last.ok
    /\ \E a \in raw_messages : Expired(a, st_day) /\ ReferencedBy(a) # {}

\* C35: a cleanup_raw_messages that fails is swallowed and leaves both
\* tables exactly as they were before the call: no audit row is deleted,
\* not even an expired row that nothing references.
C35_FailedCleanupChangesNothing ==
    [][(st_last'.op = "cleanup_raw_messages" /\ ~st_last'.ok) =>
          /\ ~st_last'.raised
          /\ raw_messages' = raw_messages
          /\ trade_signals' = trade_signals]_vars

\* The failed sweep left behind an expired row that nothing references.
C35_Witness ==
    /\ st_last.op = "cleanup_raw_messages"
    /\ ~st_last.ok
    /\ \E a \in raw_messages : Expired(a, st_day) /\ ReferencedBy(a) = {}
    /\ \E a \in raw_messages : Expired(a, st_day) /\ ReferencedBy(a) # {}

(***************************************************************************)
(* Properties of the processor                                             *)
(***************************************************************************)

Blacklisted == _contains_any(pr_msg.content, cfg.blacklist_patterns)
IntentMatched == _contains_any(pr_msg.content, cfg.intent_patterns)

\* The message survives the reject list and the intent list.
PassesFilters == ~Blacklisted /\ (cfg.intent_patterns = <<>> \/ IntentMatched)

\* C5: for a message matching a blacklist pattern, process() returns no
\* signals and calls neither the gateway nor the fallback extractor, also
\* when the message matches an intent pattern.
C5_BlacklistShortCircuits ==
    (pr_out.done /\ Blacklisted) =>
        /\ pr_out.ret = <<>>
        /\ ~pr_out.raised
        /\ pr_out.gateway_calls = 0
        /\ ~pr_out.fallback_called

C5_Witness ==
    /\ pr_out.done
    /\ Blacklisted
    /\ IntentMatched
    /\ pr_out.ret = <<>>

\* C6: with an empty intent whitelist every message that matches no
\* blacklist pattern is trade-related and reaches the extraction stage of
\* process(): the gateway when extraction is enabled, else the fallback.
C6_EmptyWhitelistPassesThrough ==
    (cfg.intent_patterns = <<>> /\ ~Blacklisted) =>
        /\ pr_trade.done => pr_trade.ret
        /\ pr_out.done =>
              IF cfg.enabled THEN pr_out.gateway_calls = 1
              ELSE pr_out.gateway_calls = 0 /\ pr_out.fallback_called

C6_Witness ==
    /\ cfg.intent_patterns = <<>>
    /\ cfg.blacklist_patterns # <<>>
    /\ ~Blacklisted
    /\ pr_msg.content # <<>>
    /\ pr_trade.done /\ pr_trade.ret
    /\ pr_out.done /\ pr_out.gateway_calls = 1

IsText(v) == v \notin {NoneVal, Absent}

\* The object carries an intent and an item name, both non-blank.
HasIntentAndItem(obj) ==
    /\ IsText(obj.intent) /\ Strip(obj.intent) # <<>>
    /\ IsText(obj.item_name) /\ Strip(obj.item_name) # <<>>

UsableObjects == SelectSeq(analyze(pr_api), HasIntentAndItem)

\* C8: with extraction enabled and a non-empty gateway result, process()
\* returns one signal per object that has an intent and an item name, in
\* the gateway's order; the other objects are dropped one by one.
C8_OneSignalPerUsableObject ==
    (pr_out.done /\ cfg.enabled /\ PassesFilters /\ analyze(pr_api) # <<>>) =>
        /\ ~pr_out.raised
        /\ Len(pr_out.ret) = Len(UsableObjects)
        /\ \A k \in DOMAIN pr_out.ret :
              /\ pr_out.ret[k].raw_msg_id = pr_msg.id
              /\ pr_out.ret[k].intent = Strip(UsableObjects[k].intent)
              /\ pr_out.ret[k].item = Strip(UsableObjects[k].item_name)

\* C9: with extraction enabled and nothing usable from the gateway (an
\* empty result, or only objects without intent or item name), process()
\* calls the fallback extractor and returns its result.
C9_FallbackWhenNothingUsable ==
    (pr_out.done /\ cfg.enabled /\ PassesFilters /\ UsableObjects = <<>>) =>
        /\ ~pr_out.raised
        /\ pr_out.fallback_called
        /\ pr_out.ret = _extract_basic_info(pr_msg)

\* C10: with extraction disabled process() never calls the gateway, and
\* for a message that passes both filters it returns the fallback
\* extractor's result.
C10_DisabledUsesFallbackOnly ==
    (pr_out.done /\ ~cfg.enabled) =>
        /\ pr_out.gateway_calls = 0
        /\ PassesFilters =>
              /\ pr_out.fallback_called
              /\ ~pr_out.raised
              /\ pr_out.ret = _extract_basic_info(pr_msg)

C10_Witness ==
    /\ pr_out.done
    /\ ~cfg.enabled
    /\ PassesFilters
    /\ analyze(pr_api) # <<>>
    /\ pr_out.gateway_calls = 0
    /\ pr_out.ret # <<>>

\* The text the fallback extractor searches, and the keyword it matches:
\* the first buy keyword that occurs, else the first sell keyword.
FallbackText == Strip(Lower(pr_msg.content))

MatchedKeyword ==
    IF FirstKeyword(buy_keywords, FallbackText) # <<>>
    THEN FirstKeyword(buy_keywords, FallbackText)
    ELSE FirstKeyword(sell_keywords, FallbackText)

\* Something other than blanks follows the matched keyword.
FollowedByText ==
    /\ MatchedKeyword # <<>>
    /\ \E i \in DOMAIN AfterFirst(MatchedKeyword[1], FallbackText) :
          ~IsSpace(AfterFirst(MatchedKeyword[1], FallbackText)[i])

\* C11: the fallback extractor produces no signal when no buy or sell
\* keyword occurs in the message, and no signal when the matched keyword is
\* not followed by any extractable text.
C11_NoSignalWithoutItemText ==
    (pr_out.done /\ pr_out.fallback_called) =>
        /\ MatchedKeyword = <<>> => pr_out.ret = <<>>
        /\ (MatchedKeyword # <<>> /\ ~FollowedByText) => pr_out.ret = <<>>

TransientFailure == pr_http.kind \in {"timeout", "request_error"}

\* process() reached the extraction stage with extraction enabled.
GatewayConsulted == pr_out.done /\ cfg.enabled /\ PassesFilters

\* C15: when the request times out or the connection fails, the request is
\* retried (a bounded number of times, with backoff) and the fallback
\* extractor is used only after the retries.  process() calls analyze()
\* once per counted gateway call and analyze() issues one request, so the
\* gateway calls of a run are the requests made for its message.
C15_RetriedBeforeFallback ==
    (GatewayConsulted /\ TransientFailure) =>
        /\ pr_out.gateway_calls >= 2
        /\ pr_out.fallback_called

\* The failures named by the claim: a timeout, a connection error, a
\* status other than 200, a body or a message content that is not JSON.
RequestFailed ==
    \/ TransientFailure
    \/ pr_http.kind = "response" /\ pr_http.status # "200"
    \/ pr_http.kind = "response" /\ pr_http.envelope = "not_json"
    \/ pr_http.kind = "response" /\ pr_http.envelope = "ok"
           /\ pr_http.content = NotJson

\* C16: for a timeout, a connection error, a non-200 status or a JSON
\* parse failure of the envelope or of the content, analyze() returns the
\* empty list, and process() returns the fallback extractor's result for
\* the message without raising.
C16_FailureYieldsFallback ==
    RequestFailed =>
        /\ analyze(pr_api) = <<>>
        /\ GatewayConsulted =>
              /\ ~pr_out.raised
              /\ pr_out.gateway_calls = 1
              /\ pr_out.fallback_called
              /\ pr_out.ret = _extract_basic_info(pr_msg)

C16_Witness ==
    /\ GatewayConsulted
    /\ pr_http.kind = "response"
    /\ pr_http.status # "200"
    /\ pr_http.content # NotJson
    /\ pr_out.fallback_called
    /\ pr_out.ret # <<>>

HasBuyKeyword == FirstKeyword(buy_keywords, FallbackText) # <<>>
HasSellKeyword == FirstKeyword(sell_keywords, FallbackText) # <<>>

\* C29: the fallback extractor looks for the buy keywords before the sell
\* keywords and stops at the first keyword it finds: it never returns more
\* than one signal, a message with a buy keyword gives intent buy also
\* when a sell keyword stands in it (before or after), and a message with
\* sell keywords only gives intent sell.
C29_BuyBeforeSell ==
    (pr_out.done /\ pr_out.fallback_called) =>
        /\ Len(pr_out.ret) <= 1
        /\ HasBuyKeyword =>
              Len(pr_out.ret) = 1 /\ pr_out.ret[1].intent = <<"b", "u", "y">>
        /\ (~HasBuyKeyword /\ HasSellKeyword) =>
              Len(pr_out.ret) = 1
                  /\ pr_out.ret[1].intent = <<"s", "e", "l", "l">>

\* The sell keyword stands before the buy keyword in the text.
C29_Witness ==
    /\ pr_out.done
    /\ pr_out.fallback_called
    /\ pr_msg.content = <<"chu", "shou">>
    /\ pr_out.ret[1].intent = <<"b", "u", "y">>

\* A failure of the request that is not a timeout: the connection failed,
\* the status is not 200 (401 for a rejected key), or the response is
\* malformed (body or content not JSON, body of another shape).
NonTimeoutFailure ==
    \/ pr_http.kind = "request_error"
    \/ /\ pr_http.kind = "response"
       /\ \/ pr_http.status # "200"
          \/ pr_http.envelope # "ok"
          \/ pr_http.content = NotJson

UnexpectedSchema ==
    \/ pr_api.kind = "other"
    \/ \E i \in DOMAIN analyze(pr_api) : analyze(pr_api)[i].intent = NoneVal

\* C31: when the service's response parses as JSON with an unexpected
\* schema, process() treats it as no result: it makes the one gateway call,
\* does not raise, and returns the fallback extractor's result.
C31_UnexpectedSchemaFallsBack ==
    (GatewayConsulted /\ UnexpectedSchema) =>
        /\ ~pr_out.raised
        /\ pr_out.gateway_calls = 1
        /\ pr_out.fallback_called
        /\ pr_out.ret = _extract_basic_info(pr_msg)

\* process() returned the empty list at one of its two filter stages.
StoppedAtFilters ==
    /\ pr_out.ret = <<>>
    /\ ~pr_out.raised
    /\ pr_out.gateway_calls = 0
    /\ ~pr_out.fallback_called

\* C37: is_trade_related(m) and the filter stages of process(m) agree for
\* every message and every pair of pattern lists: is_trade_related(m) is
\* false exactly when process(m) returns the empty list before it reaches
\* the gateway or the fallback extractor.
C37_FilterStagesAgree ==
    (pr_trade.done /\ pr_out.done) => (~pr_trade.ret <=> StoppedAtFilters)

\* A message that only the whitelist rejects, while the service would have
\* answered with objects.
C37_Witness ==
    /\ pr_trade.done
    /\ pr_out.done
    /\ ~pr_trade.ret
    /\ ~Blacklisted
    /\ cfg.intent_patterns # <<>>
    /\ cfg.enabled
    /\ analyze(pr_api) # <<>>
    /\ StoppedAtFilters

(***************************************************************************)
(* Properties of the rate limiter                                          *)
(***************************************************************************)

\* The calls issued before the most recent one.
PriorCalls == SubSeq(gw_issued, 1, Len(gw_issued) - 1)

\* The calls of a history issued less than one window before time t (a
\* call made exactly one window ago has left the window).
Recent(calls, t) == {k \in DOMAIN calls : t - calls[k] < window}

\* The oldest of the calls still inside the window at time t.
OldestRecent(calls, t) ==
    CHOOSE k \in Recent(calls, t) : \A j \in Recent(calls, t) : calls[k] <= calls[j]

\* C13: when _rate_limit calls were recorded within the trailing window as
\* analyze() is called, the call is not issued before the oldest of them
\* has left the window, and it is issued: delayed, never dropped or failed.
C13_DelayedUntilOldestLeft ==
    (gw_last.done /\ Cardinality(Recent(PriorCalls, gw_last.arrived)) >= _rate_limit) =>
        /\ gw_last.passed
        /\ gw_last.issued -
              PriorCalls[OldestRecent(PriorCalls, gw_last.arrived)] >= window

\* C14: with a single caller, no more than _rate_limit calls are issued
\* within any window: for every instant t, at most _rate_limit calls were
\* issued at t or later and less than one window after t.
C14_AtMostLimitPerWindow ==
    \A t \in 0..MaxClock :
        Cardinality({k \in DOMAIN gw_issued :
                        t <= gw_issued[k] /\ gw_issued[k] < t + window})
            <= _rate_limit

\* C39: after every return of _throttle() under a single caller the deque
\* holds at most _rate_limit timestamps, in non-decreasing order, also
\* after a call that had to sleep because the window was full.
C39_DequeWithinLimit ==
    gw_last.done =>
        /\ Len(_rate_window) <= _rate_limit
        /\ \A i, j \in DOMAIN _rate_window :
              i < j => _rate_window[i] <= _rate_window[j]

\* Both threads passed the capacity check without sleeping, on the same
\* deque of _rate_limit - 1 entries (no call was issued between the two
\* checks), and both have issued their calls.
BothPassedTheCheck ==
    /\ \A t \in Threads :
          /\ gw_threads[t].pc = "idle"
          /\ gw_threads[t].done
          /\ ~gw_threads[t].slept
          /\ gw_threads[t].saw = _rate_limit - 1
    /\ \A t, u \in Threads : gw_threads[t].seen = gw_threads[u].seen

\* The oldest call the two threads counted at their checks, or without
\* one the earlier of their own two calls.
OldestCounted ==
    LET k == gw_threads["T1"].seen IN
    IF _rate_limit > 1 THEN gw_issued[k - _rate_limit + 2]
    ELSE Min(gw_threads["T1"].stamp, gw_threads["T2"].stamp)

\* More than _rate_limit calls were issued within one window.
LimitExceeded ==
    \E t0 \in 0..MaxClock :
        Cardinality({k \in DOMAIN gw_issued :
                        t0 <= gw_issued[k] /\ gw_issued[k] < t0 + window})
            > _rate_limit

\* C33: two threads that call analyze() on the same gateway can both pass
\* the capacity check of _throttle before either has appended its
\* timestamp, and then both calls are issued: when their calls fall in
\* the window of the calls they counted, more than _rate_limit calls were
\* issued within one window.
C33_BothPassAndExceed ==
    (/\ BothPassedTheCheck
     /\ \A t \in Threads : gw_threads[t].stamp - OldestCounted < window) =>
        LimitExceeded

\* The limit is exceeded by two calls that passed the same check, with
\* no call just one window old and no sleep involved.
C33_Witness ==
    /\ BothPassedTheCheck
    /\ \A t \in Threads : gw_threads[t].stamp - OldestCounted < window
    /\ Len(_rate_window) = _rate_limit + 1
    /\ clock - _rate_window[1] < window
    /\ LimitExceeded

(***************************************************************************)
(* Properties of the monitoring loop                                       *)
(***************************************************************************)

\* The last message handled in this tick raised an exception.
TickRaised == mn_handled # <<>> /\ mn_handled[Len(mn_handled)].raised

\* C21: the monitoring loop is never left because of an exception raised
\* within a tick: it is left only when the operator's interrupt arrived,
\* and after an exception it waits and then starts another tick (unless
\* the interrupt arrives during the wait).
C21_LeftOnlyOnInterrupt ==
    /\ [](mn_pc = "exited" => mn_stop # "none")
    /\ [](TickRaised => mn_pc \in {"error_wait", "exited"})
    /\ [][mn_pc = "error_wait" => mn_pc' \in {"collect", "exited"}]_vars

\* An exception cut a batch short, and the loop waits to go on.
C21_Witness ==
    /\ mn_pc = "error_wait"
    /\ TickRaised
    /\ Len(mn_handled) < Len(mn_messages)
    /\ mn_stop = "none"

\* C22: when the operator's interrupt arrives while a batch is being
\* processed, every message of that batch has been handled (audited,
\* processed, its signals saved) when the loop has been left.
C22_InFlightBatchCompleted ==
    (mn_pc = "exited" /\ mn_stop = "for") =>
        /\ Len(mn_handled) = Len(mn_messages)
        /\ \A i \in DOMAIN mn_messages : HasAudit(mn_messages[i].id)

\* The hashes the collector met in this tick's scan only while they were
\* in the dedup window.
SeenAgain ==
    {HashOf(mn_scan[i].t) : i \in DOMAIN mn_scan} \
        {HashOf(mn_scan[i].t) : i \in {j \in DOMAIN mn_scan : ~mn_scan[j].inwin}}

AuditRowsOf(h) == {a \in raw_messages : a.id = h}
SignalRowsOf(h) == {r \in trade_signals : r.raw_msg_id = h}

\* C23: a message observed again while its hash is in the dedup window is
\* a duplicate for the collector, which does not return it; the loop calls
\* neither is_trade_related nor process for it, and throughout the tick no
\* audit row and no signal row of that message is added.
C23_DuplicateDropped ==
    /\ [](/\ \A i \in DOMAIN mn_scan : mn_scan[i].inwin => mn_scan[i].ret
          /\ \A h \in SeenAgain :
                /\ \A i \in DOMAIN mn_messages : mn_messages[i].id # h
                /\ \A k \in DOMAIN mn_handled : mn_handled[k].id # h)
    /\ [][\A h \in SeenAgain' :
             /\ AuditRowsOf(h)' \subseteq AuditRowsOf(h)
             /\ SignalRowsOf(h)' \subseteq SignalRowsOf(h)]_vars

\* A trade message stored with its signal in an earlier tick is shown
\* again next to a new message, and the tick's batch has been handled.
C23_Witness ==
    /\ mn_pc = "report"
    /\ mn_handled # <<>>
    /\ \E h \in SeenAgain : AuditRowsOf(h) # {} /\ SignalRowsOf(h) # {}

\* The rows stored for message h hold exactly the tuples of the signals.
StoredTuplesAre(h, signals) ==
    /\ signals # <<>>
    /\ \A i \in DOMAIN signals : RowsHolding(signals[i]) # {}
    /\ \A r \in SignalRowsOf(h) :
          \E i \in DOMAIN signals : r \in RowsHolding(signals[i])

\* The message handled by this step, and what process() returned for it.
HandledNow == mn_handled'[Len(mn_handled')]

\* C24: after a restart (dedup window empty, store kept), handling again a
\* message that has its audit row, when the extraction yields the tuples
\* (intent, item, price, specs) already stored for it, adds no audit row
\* and no signal row.
C24_RestartAddsNoRows ==
    [][(/\ mn_restarted
        /\ Len(mn_handled') = Len(mn_handled) + 1
        /\ HasAudit(HandledNow.id)
        /\ StoredTuplesAre(HandledNow.id, HandledNow.signals)) =>
          /\ raw_messages' = raw_messages
          /\ trade_signals' = trade_signals]_vars

\* C25: when the loop over a tick's batch is over, every message of the
\* batch has exactly one audit row, trade-related or not, and the row's
\* is_trade flag is the classifier's verdict for the message.
C25_EveryMessageAudited ==
    mn_pc \in {"report", "sleep", "error_wait"} =>
        \A i \in DOMAIN mn_messages :
            /\ Cardinality(AuditRowsOf(mn_messages[i].id)) = 1
            /\ \A a \in AuditRowsOf(mn_messages[i].id) :
                  a.is_trade = IF is_trade_related_fn(cfg, mn_messages[i])
                               THEN 1 ELSE 0

\* The ids of a list of signals, in the list's order.
IdsOf(signals) == [j \in DOMAIN signals |-> _signal_id(signals[j])]

\* The sequence stored is drawn from the sequence ids without changing the
\* order of ids.
InOrderOf(stored, ids) ==
    \E f \in [DOMAIN stored -> DOMAIN ids] :
        /\ \A i \in DOMAIN stored : ids[f[i]] = stored[i]
        /\ \A i, j \in DOMAIN stored : i < j => f[i] < f[j]

\* C32: within one tick signals are persisted in batch iteration order.
\* The messages are handled in the order of the batch; a step that adds
\* signal rows adds rows of the message at the next batch position only,
\* so every row of an earlier message is there before any row of a later
\* one; and the rows of one message are added in the order in which
\* process() returned its signals.
C32_PersistedInBatchOrder ==
    /\ [](\A k \in DOMAIN mn_handled :
             /\ mn_handled[k].id = mn_messages[k].id
             /\ InOrderOf(mn_handled[k].stored, IdsOf(mn_handled[k].signals)))
    /\ [][trade_signals' # trade_signals =>
              /\ Len(mn_handled') = Len(mn_handled) + 1
              /\ {r.id : r \in trade_signals' \ trade_signals}
                     = Range(HandledNow.stored)
              /\ \A r \in trade_signals' \ trade_signals :
                     r.raw_msg_id = mn_messages[Len(mn_handled')].id]_vars

\* Both messages of a batch were handled and each had two rows added.
C32_Witness ==
    /\ Len(mn_handled) = 2
    /\ mn_handled[1].id # mn_handled[2].id
    /\ Len(mn_handled[1].stored) = 2
    /\ Len(mn_handled[2].stored) = 2
    /\ mn_handled[2].stored = IdsOf(mn_handled[2].signals)

\* C36: no message is lost when a tick aborts: a message of an aborted
\* batch that the window shows again is audited on that later tick.  Every
\* message a tick has read from the window has its audit row once the
\* tick's for loop has run to its end.
C36_AbortedBatchCaughtUp ==
    mn_pc \in {"report", "sleep"} =>
        \A i \in DOMAIN mn_scan : HasAudit(HashOf(mn_scan[i].t))

====
